---- MODULE Spec2Model ----
(***************************************************************************)
(* Model of surf_scrap (python/surf_scrap/__init__.py): the coercion       *)
(* helpers _safe_float / _safe_int, the compass mapper _deg_to_fr_compass, *)
(* the date formatter _format_fr_date and the pipeline scrape_surf_report. *)
(*                                                                         *)
(* Strings are sequences of one-character strings.  Python's None is the   *)
(* value NoneStr where a string is expected and NoneVal where a number is. *)
(***************************************************************************)
EXTENDS Integers, Sequences, FiniteSets, TLC

VARIABLES
    fn,          \* pure-function harness: which helper is called
    arg,         \* pure-function harness: its argument
    ret,         \* pure-function harness: what the call produced
    page,        \* resp.text abstracted: the record blocks in document order
    pc,          \* position inside scrape_surf_report
    i,           \* number of finditer matches consumed by the first loop
    rows,        \* the list `rows`
    seen_dates,  \* the list `seen_dates`
    filtered,    \* the list `filtered`
    j,           \* number of rows consumed by the second loop
    gets,        \* number of HTTP GET requests issued
    writes,      \* number of df.to_csv calls started
    outcome,     \* "running", "ok", or the exception that left the function
    df,          \* the local DataFrame `df` (NoTable before it is built)
    result,      \* the value returned to the caller (NoTable if none)
    csv          \* the content of the output file (NoTable if never written)

vars == <<fn, arg, ret, page, pc, i, rows, seen_dates, filtered, j,
          gets, writes, outcome, df, result, csv>>

-----------------------------------------------------------------------------
(* Bounds of the model *)

MaxLen == 4        \* longest string handed to _safe_float / _safe_int
MaxDeg == 400      \* bearings are drawn from -MaxDeg .. MaxDeg
MaxTurns == 2      \* full turns added to or taken from a bearing
MaxPageDays == 9   \* most calendar days on a page of the pipeline model
MaxGap == 2        \* the day left out of a page is one of the first MaxGap
PoolDays == 12     \* calendar days the ten-day pages choose from

-----------------------------------------------------------------------------
(* Values *)

NoneStr == <<"None">>
NoneVal == [t |-> "None"]
NoTable == <<[t |-> "NoTable"]>>

Alphabet == {" ", "-", ".", "0", "1", "2", "a", "b", "c", "i", "n", "f"}

Digits == {"0", "1", "2"}

DigitVal(c) == CASE c = "0" -> 0 [] c = "1" -> 1 [] c = "2" -> 2

RECURSIVE Pow10(_)
Pow10(n) == IF n = 0 THEN 1 ELSE 10 * Pow10(n - 1)

\* a finite float: (-1)^neg * num / 10^scale, with the fraction's trailing
\* zeros removed so that equal numbers are equal values
RECURSIVE Canon(_, _, _)
Canon(neg, num, scale) ==
    IF scale > 0 /\ num % 10 = 0
    THEN Canon(neg, num \div 10, scale - 1)
    ELSE [t |-> "float", kind |-> "fin", neg |-> neg, num |-> num, scale |-> scale]

FloatInf(neg) == [t |-> "float", kind |-> "inf", neg |-> neg, num |-> 0, scale |-> 0]
FloatNan(neg) == [t |-> "float", kind |-> "nan", neg |-> neg, num |-> 0, scale |-> 0]
IntVal(n) == [t |-> "int", v |-> n]

Return(v) == [tag |-> "return", val |-> v]
Raise(e) == [tag |-> "raise", val |-> [t |-> e]]
ValueError == [t |-> "ValueError"]

-----------------------------------------------------------------------------
(* str.strip, float(), int() *)

RECURSIVE LStrip(_)
LStrip(s) == IF s # <<>> /\ Head(s) = " " THEN LStrip(Tail(s)) ELSE s

RECURSIVE RStrip(_)
RStrip(s) ==
    IF s # <<>> /\ s[Len(s)] = " " THEN RStrip(SubSeq(s, 1, Len(s) - 1)) ELSE s

Strip(s) == RStrip(LStrip(s))

RECURSIVE DigitsVal(_)
DigitsVal(s) ==
    IF s = <<>> THEN 0
    ELSE 10 * DigitsVal(SubSeq(s, 1, Len(s) - 1)) + DigitVal(s[Len(s)])

AllDigits(s) == \A k \in 1..Len(s) : s[k] \in Digits

\* float(x) for a string over Alphabet: an optional sign, then "inf", "nan",
\* or decimal digits with at most one point and at least one digit
PyFloat(x) ==
    LET neg == x # <<>> /\ Head(x) = "-"
        b == IF neg THEN Tail(x) ELSE x
        dots == {k \in 1..Len(b) : b[k] = "."}
    IN  IF b = <<"i", "n", "f">> THEN FloatInf(neg)
        ELSE IF b = <<"n", "a", "n">> THEN FloatNan(neg)
        ELSE IF Cardinality(dots) = 0
             THEN IF b # <<>> /\ AllDigits(b)
                  THEN Canon(neg, DigitsVal(b), 0)
                  ELSE ValueError
        ELSE IF Cardinality(dots) = 1
             THEN LET d == CHOOSE k \in dots : TRUE
                      ip == SubSeq(b, 1, d - 1)
                      fp == SubSeq(b, d + 1, Len(b))
                  IN  IF AllDigits(ip) /\ AllDigits(fp) /\ Len(ip) + Len(fp) > 0
                      THEN Canon(neg, DigitsVal(ip \o fp), Len(fp))
                      ELSE ValueError
        ELSE ValueError

\* int(f) for a float f: truncation toward zero; raises on inf and nan
PyInt(f) ==
    IF f.kind = "inf" THEN [t |-> "OverflowError"]
    ELSE IF f.kind = "nan" THEN ValueError
    ELSE LET m == f.num \div Pow10(f.scale)
         IN  IntVal(IF f.neg THEN 0 - m ELSE m)

IsError(v) == v.t \in {"ValueError", "OverflowError"}

_safe_float(x) ==
    IF x = NoneStr THEN Return(NoneVal)
    ELSE LET s == Strip(x)
         IN  IF s = <<>> \/ s = <<"-">> THEN Return(NoneVal)
             ELSE LET f == PyFloat(s)
                  IN  IF f = ValueError THEN Return(NoneVal) ELSE Return(f)

_safe_int(x) ==
    IF x = NoneStr THEN Return(NoneVal)
    ELSE LET s == Strip(x)
         IN  IF s = <<>> \/ s = <<"-">> THEN Return(NoneVal)
             ELSE LET f == PyFloat(s)
                  IN  IF f = ValueError THEN Return(NoneVal)
                      ELSE LET n == PyInt(f)
                           IN  IF n = ValueError THEN Return(NoneVal)
                               ELSE IF IsError(n) THEN Raise(n.t)
                               ELSE Return(n)

-----------------------------------------------------------------------------
(* Compass mapper *)

_FR_COMPASS_16 ==
    << "Nord", "Nord Nord Est", "Nord Est", "Est Nord Est",
       "Est", "Est Sud Est", "Sud Est", "Sud Sud Est",
       "Sud", "Sud Sud Ouest", "Sud Ouest", "Ouest Sud Ouest",
       "Ouest", "Ouest Nord Ouest", "Nord Ouest", "Nord Nord Ouest" >>

\* variant: the sign dropped instead of wrapping, abs(deg) % 360
NormDegAbs(deg) == (IF deg < 0 THEN 0 - deg ELSE deg) % 360

\* deg % 360, which is never negative in Python
NormDeg(deg) == deg % 360

\* variant: the half bucket offset left out, int(deg // 22.5) % 16
CompassIndexNoOffset(d) == ((4 * d) \div 90) % 16

\* int((deg + 11.25) // 22.5) % 16 for an integer deg, in quarter degrees:
\* (4 * deg + 45) // 90
CompassIndex(d) == ((4 * d + 45) \div 90) % 16

_deg_to_fr_compass(deg) == _FR_COMPASS_16[CompassIndex(NormDeg(deg)) + 1]

-----------------------------------------------------------------------------
(* Idle values of the variables a specification does not use *)

NoRet == [tag |-> "none", val |-> NoneVal]

PipelineIdle ==
    /\ page = <<>>
    /\ pc = "idle"
    /\ i = 0
    /\ rows = <<>>
    /\ seen_dates = <<>>
    /\ filtered = <<>>
    /\ j = 0
    /\ gets = 0
    /\ writes = 0
    /\ outcome = "idle"
    /\ df = NoTable
    /\ result = NoTable
    /\ csv = NoTable

pipelineVars == <<page, pc, i, rows, seen_dates, filtered, j,
                  gets, writes, outcome, df, result, csv>>

-----------------------------------------------------------------------------
(* Calls of _safe_float and _safe_int on every string up to MaxLen *)

Strings == UNION {[1..n -> Alphabet] : n \in 0..MaxLen}

InitCoerce ==
    /\ fn = "none"
    /\ arg \in Strings \cup {NoneStr}
    /\ ret = NoRet
    /\ PipelineIdle

CallSafeFloat ==
    /\ fn = "none"
    /\ fn' = "_safe_float"
    /\ ret' = _safe_float(arg)
    /\ UNCHANGED <<arg, pipelineVars>>

CallSafeInt ==
    /\ fn = "none"
    /\ fn' = "_safe_int"
    /\ ret' = _safe_int(arg)
    /\ UNCHANGED <<arg, pipelineVars>>

NextCoerce == CallSafeFloat \/ CallSafeInt

SpecCoerce == InitCoerce /\ [][NextCoerce]_vars

-----------------------------------------------------------------------------
(* Calls of _deg_to_fr_compass on a bearing and on the bearing turned by   *)
(* whole circles                                                           *)

InitCompass ==
    /\ fn = "none"
    /\ arg \in (0 - MaxDeg)..MaxDeg
    /\ ret = NoRet
    /\ PipelineIdle

CallCompass ==
    /\ fn = "none"
    /\ fn' = "_deg_to_fr_compass"
    /\ ret' = Return(_deg_to_fr_compass(arg))
    /\ UNCHANGED <<arg, pipelineVars>>

FullTurn ==
    /\ fn = "_deg_to_fr_compass"
    /\ \E k \in ((0 - MaxTurns)..MaxTurns) \ {0} :
          /\ arg + 360 * k \in (0 - MaxDeg - 360 * MaxTurns)..(MaxDeg + 360 * MaxTurns)
          /\ arg' = arg + 360 * k
          /\ ret' = Return(_deg_to_fr_compass(arg + 360 * k))
    /\ UNCHANGED <<fn, pipelineVars>>

NextCompass == CallCompass \/ FullTurn

SpecCompass == InitCompass /\ [][NextCompass]_vars

-----------------------------------------------------------------------------
(* Calendar: datetime.strptime, datetime.weekday, ordering of datetimes *)

IsLeap(y) == y % 4 = 0 /\ (y % 100 # 0 \/ y % 400 = 0)

DaysInMonth(y, m) ==
    IF m = 2 THEN (IF IsLeap(y) THEN 29 ELSE 28)
    ELSE IF m \in {4, 6, 9, 11} THEN 30 ELSE 31

RECURSIVE DaysBeforeMonth(_, _)
DaysBeforeMonth(y, m) ==
    IF m = 1 THEN 0 ELSE DaysBeforeMonth(y, m - 1) + DaysInMonth(y, m - 1)

\* date.toordinal(): 1 for 0001-01-01
ToOrdinal(date) ==
    LET y1 == date.y - 1
    IN  y1 * 365 + y1 \div 4 - y1 \div 100 + y1 \div 400
        + DaysBeforeMonth(date.y, date.m) + date.d

\* datetime.weekday(): Monday is 0
Weekday(date) == (ToOrdinal(date) + 6) % 7

\* the timestamps strptime("%Y-%m-%d %H:%M:%S") accepts among those the
\* pattern \d{4}-\d{2}-\d{2} \d{2}:\d{2}:\d{2} matches
ValidTimestamp(dt) ==
    /\ dt.date.y >= 1
    /\ dt.date.m \in 1..12
    /\ dt.date.d \in 1..DaysInMonth(dt.date.y, dt.date.m)
    /\ dt.hh \in 0..23
    /\ dt.mm \in 0..59
    /\ dt.ss \in 0..59

\* the order of datetime values (the sort key r["_dt"]), a <= b: datetimes
\* compare field by field, year first
RECURSIVE LexLE(_, _)
LexLE(a, b) ==
    IF a = <<>> THEN TRUE
    ELSE IF Head(a) # Head(b) THEN Head(a) < Head(b)
    ELSE LexLE(Tail(a), Tail(b))

Fields(dt) == <<dt.date.y, dt.date.m, dt.date.d, dt.hh, dt.mm, dt.ss>>

DtLE(a, b) == LexLE(Fields(a), Fields(b))

NextDay(date) ==
    IF date.d < DaysInMonth(date.y, date.m)
    THEN [date EXCEPT !.d = date.d + 1]
    ELSE IF date.m < 12 THEN [y |-> date.y, m |-> date.m + 1, d |-> 1]
    ELSE [y |-> date.y + 1, m |-> 1, d |-> 1]

-----------------------------------------------------------------------------
(* Date formatter and row construction *)

_FR_WEEKDAYS ==
    <<"Lundi", "Mardi", "Mercredi", "Jeudi", "Vendredi", "Samedi", "Dimanche">>

\* (written without accents)
_FR_MONTHS ==
    << "Janvier", "Fevrier", "Mars", "Avril", "Mai", "Juin",
       "Juillet", "Aout", "Septembre", "Octobre", "Novembre", "Decembre" >>

\* f"{weekday} {d.day} {month}": the three parts of the label, no year
_format_fr_date(dt) ==
    <<_FR_WEEKDAYS[Weekday(dt.date) + 1], dt.date.d, _FR_MONTHS[dt.date.m]>>

\* dt.strftime("%H:%M")
TimeHM(dt) == <<dt.hh, dt.mm>>

\* r["_dt"].strftime("%Y-%m-%d")
DateKey(dt) == <<dt.date.y, dt.date.m, dt.date.d>>

target_times == {<<6, 0>>, <<9, 0>>, <<12, 0>>, <<15, 0>>, <<18, 0>>, <<21, 0>>}

\* f"{x:.1f}" for a float with at most one decimal (the page values of the
\* model), where the format is exact; "inf" and "nan" print as such
Fmt1(f) ==
    IF f.kind # "fin" THEN [neg |-> f.neg, text |-> f.kind, whole |-> 0, tenth |-> 0]
    ELSE [neg |-> f.neg, text |-> "fixed",
          whole |-> f.num \div Pow10(f.scale),
          tenth |-> IF f.scale = 0 THEN 0 ELSE f.num % 10]

\* _extract_phpdump_string(body, field): the body of a record block is the
\* map from the field names it holds to their string(N) "VALUE" values
_extract_phpdump_string(body, field) == body[field]

MakeRow(dt, houle, houle_max, vent, dir_deg) ==
    [ _dt |-> dt,
      Date |-> _format_fr_date(dt),
      Time |-> TimeHM(dt),
      Wave_size |-> <<Fmt1(houle), Fmt1(houle_max)>>,
      Wind_speed |-> vent.v,
      Wind_direction |-> _deg_to_fr_compass(dir_deg.v) ]

Columns(r) ==
    [ Date |-> r.Date, Time |-> r.Time, Wave_size |-> r.Wave_size,
      Wind_speed |-> r.Wind_speed, Wind_direction |-> r.Wind_direction ]

\* the key of one row is smaller than the key of another
KeyLess(a, b) == ~DtLE(b._dt, a._dt)

\* variant: the list left in document order
SortRowsKeepOrder(rs) == rs

\* list.sort(key=lambda r: r["_dt"]): ascending; rows with equal keys keep
\* their order (TLC's SortSeq moves a row only past rows with a larger key)
SortRows(rs) == SortSeq(rs, KeyLess)

MaxDays == 7

InList(x, l) == \E k \in 1..Len(l) : l[k] = x

-----------------------------------------------------------------------------
(* scrape_surf_report *)

NetworkErrors == {"ConnectionError", "Timeout", "HTTPError"}

\* variant: a failed request is tried once more
FetchRetrying ==
    /\ pc = "start"
    /\ gets' = gets + 1
    /\ \E r \in {"ok"} \cup NetworkErrors :
          IF r = "ok"
          THEN /\ pc' = IF page = <<>> THEN "check" ELSE "scan"
               /\ UNCHANGED outcome
          ELSE IF gets = 0
          THEN UNCHANGED <<pc, outcome>>
          ELSE /\ pc' = "done"
               /\ outcome' = r
    /\ UNCHANGED <<fn, arg, ret, page, i, rows, seen_dates, filtered, j,
                   writes, df, result, csv>>

\* requests.get(...) and resp.raise_for_status(): one request, whose result
\* the network decides
Fetch ==
    /\ pc = "start"
    /\ gets' = gets + 1
    /\ \E r \in {"ok"} \cup NetworkErrors :
          IF r = "ok"
          THEN /\ pc' = IF page = <<>> THEN "check" ELSE "scan"
               /\ UNCHANGED outcome
          ELSE /\ pc' = "done"
               /\ outcome' = r
    /\ UNCHANGED <<fn, arg, ret, page, i, rows, seen_dates, filtered, j,
                   writes, df, result, csv>>

\* variant: every full hour kept
InTargetTimesAnyHour(dt) == dt.mm = 0

\* `time_hm not in target_times`, negated
InTargetTimes(dt) == TimeHM(dt) \in target_times

Incomplete(houle, houle_max, vent, dir_deg) ==
    \/ houle = NoneVal
    \/ houle_max = NoneVal
    \/ vent = NoneVal
    \/ dir_deg = NoneVal

\* one iteration of `for m in _ENTRY_PATTERN.finditer(html)`
ScanRecord ==
    /\ pc = "scan"
    /\ LET rec == page[i + 1]
           houle == _safe_float(_extract_phpdump_string(rec.body, "houle"))
           houle_max == _safe_float(_extract_phpdump_string(rec.body, "houleMax"))
           vent == _safe_int(_extract_phpdump_string(rec.body, "ventMoyen"))
           dir_deg == _safe_int(_extract_phpdump_string(rec.body, "directionVent"))
           next == IF i + 1 = Len(page) THEN "check" ELSE "scan"
       IN  IF ~ValidTimestamp(rec.dt)
           THEN /\ outcome' = "ValueError"
                /\ pc' = "done"
                /\ UNCHANGED <<i, rows>>
           ELSE IF ~InTargetTimes(rec.dt)
           THEN /\ i' = i + 1
                /\ pc' = next
                /\ UNCHANGED <<outcome, rows>>
           ELSE IF vent.tag = "raise" \/ dir_deg.tag = "raise"
           THEN /\ outcome' = IF vent.tag = "raise" THEN vent.val.t ELSE dir_deg.val.t
                /\ pc' = "done"
                /\ UNCHANGED <<i, rows>>
           ELSE IF Incomplete(houle.val, houle_max.val, vent.val, dir_deg.val)
           THEN /\ i' = i + 1
                /\ pc' = next
                /\ UNCHANGED <<outcome, rows>>
           ELSE /\ rows' = Append(rows, MakeRow(rec.dt, houle.val, houle_max.val,
                                                vent.val, dir_deg.val))
                /\ i' = i + 1
                /\ pc' = next
                /\ UNCHANGED outcome
    /\ UNCHANGED <<fn, arg, ret, page, seen_dates, filtered, j,
                   gets, writes, df, result, csv>>

\* `if not rows: raise RuntimeError(...)`, then rows.sort(key=...)
CheckRows ==
    /\ pc = "check"
    /\ IF rows = <<>>
       THEN /\ outcome' = "RuntimeError"
            /\ pc' = "done"
            /\ UNCHANGED rows
       ELSE /\ rows' = SortRows(rows)
            /\ pc' = "walk"
            /\ UNCHANGED outcome
    /\ UNCHANGED <<fn, arg, ret, page, i, seen_dates, filtered, j,
                   gets, writes, df, result, csv>>

\* variants: the comparison off by one, and the comparison inverted
CutoffReachedLate(seen) == Len(seen) > MaxDays

CutoffReachedInverted(seen) == Len(seen) <= MaxDays

\* `len(seen_dates) >= 7`
CutoffReached(seen) == Len(seen) >= MaxDays

\* one iteration of `for r in rows` of the day cutoff
WalkRecord ==
    /\ pc = "walk"
    /\ LET r == rows[j + 1]
           date_key == DateKey(r._dt)
           next == IF j + 1 = Len(rows) THEN "build" ELSE "walk"
       IN  IF ~InList(date_key, seen_dates) /\ CutoffReached(seen_dates)
           THEN /\ pc' = "build"
                /\ UNCHANGED <<seen_dates, filtered, j>>
           ELSE LET seen == IF InList(date_key, seen_dates) THEN seen_dates
                            ELSE Append(seen_dates, date_key)
                IN  /\ seen_dates' = seen
                    /\ filtered' = IF InList(date_key, seen) THEN Append(filtered, r)
                                   ELSE filtered
                    /\ j' = j + 1
                    /\ pc' = next
    /\ UNCHANGED <<fn, arg, ret, page, i, rows, gets, writes, outcome, df, result, csv>>

\* pd.DataFrame(filtered)[[...]]: selecting the columns of an empty frame
\* raises KeyError
Frame(rs) == [k \in 1..Len(rs) |-> Columns(rs[k])]

\* the DataFrame, the output path and its directory, df.to_csv, return df
Finish ==
    /\ pc = "build"
    /\ pc' = "done"
    /\ IF filtered = <<>>
       THEN /\ outcome' = "KeyError"
            /\ UNCHANGED <<df, writes, csv, result>>
       ELSE /\ df' = Frame(filtered)
            /\ writes' = writes + 1
            /\ \E written \in BOOLEAN :
                  IF written
                  THEN /\ csv' = Frame(filtered)
                       /\ result' = Frame(filtered)
                       /\ outcome' = "ok"
                  ELSE /\ outcome' = "OSError"
                       /\ UNCHANGED <<csv, result>>
    /\ UNCHANGED <<fn, arg, ret, page, i, rows, seen_dates, filtered, j, gets>>

Next == Fetch \/ ScanRecord \/ CheckRows \/ WalkRecord \/ Finish

-----------------------------------------------------------------------------
(* Pages *)

GoodBody ==
    [ houle |-> <<"1", ".", "2">>, houleMax |-> <<"2", ".", "0">>,
      ventMoyen |-> <<"1", "2">>, directionVent |-> <<"1", "2", "0">> ]

RECURSIVE PoolDate(_)
PoolDate(k) ==
    IF k = 1 THEN [y |-> 2017, m |-> 1, d |-> 1]
    ELSE IF k = 2 THEN [y |-> 2022, m |-> 12, d |-> 27]
    ELSE NextDay(PoolDate(k - 1))

Record(k, hh) ==
    [dt |-> [date |-> PoolDate(k), hh |-> hh, mm |-> 0, ss |-> 0], body |-> GoodBody]

RECURSIVE Flatten(_)
Flatten(ss) == IF ss = <<>> THEN <<>> ELSE Head(ss) \o Flatten(Tail(ss))

\* the records of day k at the given hours, in that order
DayRecords(k, hours) == [h \in 1..Len(hours) |-> Record(k, hours[h])]

Reverse(s) == [k \in 1..Len(s) |-> s[Len(s) + 1 - k]]

RECURSIVE Without(_, _)
Without(s, x) ==
    IF s = <<>> THEN <<>>
    ELSE IF Head(s) = x THEN Without(Tail(s), x)
    ELSE <<Head(s)>> \o Without(Tail(s), x)

FieldNames == {"houle", "houleMax", "ventMoyen", "directionVent"}

BadValues == {NoneStr, <<"-">>, <<"a">>}

IntOnlyValues == {<<"i", "n", "f">>, <<"n", "a", "n">>, <<"1", "2", ".", "0">>}

Defects ==
    {[kind |-> "none"], [kind |-> "time"], [kind |-> "date"]}
    \cup {[kind |-> "field", field |-> f, value |-> v] : f \in FieldNames, v \in BadValues}
    \cup {[kind |-> "field", field |-> f, value |-> v] :
             f \in {"ventMoyen", "directionVent"}, v \in IntOnlyValues}

Spoil(rec, defect) ==
    IF defect.kind = "time" THEN [rec EXCEPT !.dt.hh = 7]
    ELSE IF defect.kind = "date" THEN [rec EXCEPT !.dt.date = [y |-> 2023, m |-> 2, d |-> 30]]
    ELSE IF defect.kind = "field" THEN [rec EXCEPT !.body[defect.field] = defect.value]
    ELSE rec

HourPatterns == {<<6>>, <<6, 21>>, <<21, 6>>}

\* days 1..n of the pool without day gap, each with the records of one hour
\* pattern, the days ascending or descending, one record spoiled
MakePage(n, gap, hours, descending, defect, at_end) ==
    LET days == Without([k \in 1..n |-> k], gap)
        ordered == IF descending THEN Reverse(days) ELSE days
        base == Flatten([k \in 1..Len(ordered) |-> DayRecords(ordered[k], hours)])
        at == IF at_end THEN Len(base) ELSE 1
    IN  IF base = <<>> THEN base
        ELSE [base EXCEPT ![at] = Spoil(base[at], defect)]

Pages ==
    { MakePage(n, gap, hours, descending, defect, at_end) :
        n \in 0..MaxPageDays, gap \in 0..MaxGap, hours \in HourPatterns,
        descending \in BOOLEAN, defect \in Defects, at_end \in BOOLEAN }

PipelineStart ==
    /\ fn = "none"
    /\ arg = NoneStr
    /\ ret = NoRet
    /\ pc = "start"
    /\ i = 0
    /\ rows = <<>>
    /\ seen_dates = <<>>
    /\ filtered = <<>>
    /\ j = 0
    /\ gets = 0
    /\ writes = 0
    /\ outcome = "running"
    /\ df = NoTable
    /\ result = NoTable
    /\ csv = NoTable

Init ==
    /\ page \in Pages
    /\ PipelineStart

Spec == Init /\ [][Next]_vars

-----------------------------------------------------------------------------
(* Pages with complete records for ten days at all six listed times *)

AllHours == <<6, 9, 12, 15, 18, 21>>

RECURSIVE Ascending(_)
Ascending(S) ==
    IF S = {} THEN <<>>
    ELSE LET lo == CHOOSE x \in S : \A z \in S : x <= z
         IN  <<lo>> \o Ascending(S \ {lo})

\* document orders: day by day ascending, day by day descending, or hour by
\* hour (all days at 21:00 first, 06:00 last)
TenDayPage(days, order) ==
    LET asc == Ascending(days)
    IN  IF order = "asc"
        THEN Flatten([k \in 1..Len(asc) |-> DayRecords(asc[k], AllHours)])
        ELSE IF order = "desc"
        THEN Flatten([k \in 1..Len(asc) |-> DayRecords(Reverse(asc)[k], Reverse(AllHours))])
        ELSE Flatten([h \in 1..Len(AllHours) |->
                        [k \in 1..Len(asc) |-> Record(asc[k], Reverse(AllHours)[h])]])

TenDaySets == {S \in SUBSET (1..PoolDays) : Cardinality(S) = 10}

InitTenDays ==
    /\ page \in {TenDayPage(S, order) : S \in TenDaySets, order \in {"asc", "desc", "hour"}}
    /\ PipelineStart

SpecTenDays == InitTenDays /\ [][Next]_vars

-----------------------------------------------------------------------------
(* Notions the claims are stated with *)

Range(s) == {s[k] : k \in 1..Len(s)}

\* a field value that does not resolve to a number: absent, blank, the
\* sentinel "-", not a float literal, or (for an integer field) not finite
Unresolved(x, integer) ==
    \/ x = NoneStr
    \/ Strip(x) \in {<<>>, <<"-">>}
    \/ PyFloat(Strip(x)) = ValueError
    \/ integer /\ PyFloat(Strip(x)).kind \in {"inf", "nan"}

AllResolve(body) ==
    /\ ~Unresolved(body["houle"], FALSE)
    /\ ~Unresolved(body["houleMax"], FALSE)
    /\ ~Unresolved(body["ventMoyen"], TRUE)
    /\ ~Unresolved(body["directionVent"], TRUE)

ListedTime(dt) ==
    dt.mm = 0 /\ dt.hh \in {6, 9, 12, 15, 18, 21}

\* the records of the page that are to survive the first loop
Survives(rec) == ValidTimestamp(rec.dt) /\ ListedTime(rec.dt) /\ AllResolve(rec.body)

DayOf(dt) == <<dt.date.y, dt.date.m, dt.date.d>>

DaysOf(rs) == {DayOf(rs[k]._dt) : k \in 1..Len(rs)}

StrictlyBefore(a, b) == DtLE(a, b) /\ ~DtLE(b, a)

IsSorted(rs) == \A k \in 1..(Len(rs) - 1) : DtLE(rs[k]._dt, rs[k + 1]._dt)

StrictlyAscending(rs) ==
    \A k \in 1..(Len(rs) - 1) : StrictlyBefore(rs[k]._dt, rs[k + 1]._dt)

FetchFailed == outcome \in NetworkErrors

-----------------------------------------------------------------------------
(* C1 *)

-----------------------------------------------------------------------------
(* C2 *)

\* the days of the first n records
PrefixDays(rs, n) == DaysOf(SubSeq(rs, 1, n))

\* the length of the longest prefix spanning at most 7 distinct days
LongestPrefix(rs) ==
    CHOOSE n \in 0..Len(rs) :
        /\ Cardinality(PrefixDays(rs, n)) <= 7
        /\ \A m \in (n + 1)..Len(rs) : Cardinality(PrefixDays(rs, m)) > 7

\* the 7 earliest days among the records
EarliestDays(rs) ==
    {d \in DaysOf(rs) :
        Cardinality({e \in DaysOf(rs) :
            \E a, b \in 1..Len(rs) :
                /\ DayOf(rs[a]._dt) = e
                /\ DayOf(rs[b]._dt) = d
                /\ e # d
                /\ DtLE(rs[a]._dt, rs[b]._dt)}) < 7}

RECURSIVE Keep(_, _)
Keep(rs, days) ==
    IF rs = <<>> THEN <<>>
    ELSE IF DayOf(Head(rs)._dt) \in days THEN <<Head(rs)>> \o Keep(Tail(rs), days)
    ELSE Keep(Tail(rs), days)

\* the state machine {seen_day_keys, done}: if done skip; if the key is new
\* and 7 keys are seen, set done and skip; else admit
RECURSIVE Machine(_, _, _, _)
Machine(rs, seen, done, admitted) ==
    IF rs = <<>> THEN admitted
    ELSE LET key == DayOf(Head(rs)._dt)
         IN  IF done THEN Machine(Tail(rs), seen, done, admitted)
             ELSE IF key \notin seen /\ Cardinality(seen) = 7
             THEN Machine(Tail(rs), seen, TRUE, admitted)
             ELSE Machine(Tail(rs), seen \cup {key}, done, Append(admitted, Head(rs)))

\* C2: the walk over the records in ascending timestamp order ends at the
\* first record whose day is new while 7 days are seen and admits nothing
\* after it; the admitted records are the longest prefix of the sorted
\* sequence spanning at most 7 distinct days, that is every surviving record
\* of the 7 earliest days and none of a later day, which is also what the
\* state machine {seen_day_keys, done} admits.
C2_HardCutoff ==
    pc = "build" =>
        /\ IsSorted(rows)
        /\ \A k \in 1..Len(page) :
              Survives(page[k]) => \E r \in 1..Len(rows) : rows[r]._dt = page[k].dt
        /\ filtered = SubSeq(rows, 1, j)
        /\ j = LongestPrefix(rows)
        /\ j < Len(rows) =>
              /\ DayOf(rows[j + 1]._dt) \notin DaysOf(filtered)
              /\ Cardinality(DaysOf(filtered)) = 7
        /\ filtered = Keep(rows, EarliestDays(rows))
        /\ filtered = Machine(rows, {}, FALSE, <<>>)

\* the walk stopped before the end of a page given out of order, with a
\* day of two records among the admitted
C2_Witness ==
    /\ pc = "build"
    /\ j < Len(rows)
    /\ ~IsSorted([k \in 1..Len(page) |-> [_dt |-> page[k].dt]])
    /\ Len(filtered) > 7

-----------------------------------------------------------------------------
(* C3 *)

\* the record the first loop is about to examine is at a listed time and one
\* of its four fields does not resolve
ExaminesUnresolved ==
    /\ pc = "scan"
    /\ ValidTimestamp(page[i + 1].dt)
    /\ ListedTime(page[i + 1].dt)
    /\ ~AllResolve(page[i + 1].body)

\* C3: a record one of whose four numeric fields is absent or fails to
\* decode is dropped, alone and silently: examining it raises no error, adds
\* no row and leaves the rows of the other records as they are.
C3_SilentDrop ==
    [][ExaminesUnresolved =>
          /\ outcome' = "running"
          /\ pc' # "done"
          /\ i' = i + 1
          /\ rows' = rows]_vars

-----------------------------------------------------------------------------
(* C4 *)

NoneSurvives ==
    \A k \in 1..Len(page) :
        /\ ValidTimestamp(page[k].dt)
        /\ ~ListedTime(page[k].dt) \/ ~AllResolve(page[k].body)

\* C4: when the page was fetched and no record survives the filtering (no
\* record block at all, or each one at an excluded time of day or with a
\* field that does not resolve), the invocation ends with the
\* data-extraction error (RuntimeError), writes no file and returns no table.
C4_NoRowsIsError ==
    (pc = "done" /\ ~FetchFailed /\ NoneSurvives) =>
        /\ outcome = "RuntimeError"
        /\ writes = 0
        /\ csv = NoTable
        /\ result = NoTable

-----------------------------------------------------------------------------
(* C5 *)

\* C5: an invocation issues exactly one GET and never a second; a failed
\* request ends it with the network error before any record is examined,
\* with no file written and no table returned; the file is written at most
\* once, and only after a successful fetch that yielded at least one row.
C5_OneGetNoRetry ==
    /\ gets <= 1
    /\ pc # "start" => gets = 1
    /\ FetchFailed =>
          /\ pc = "done"
          /\ i = 0
          /\ rows = <<>>
          /\ filtered = <<>>
          /\ writes = 0
          /\ df = NoTable
          /\ csv = NoTable
          /\ result = NoTable
    /\ outcome \notin {"running", "ok"} => result = NoTable
    /\ writes <= 1
    /\ writes = 1 => (gets = 1 /\ ~FetchFailed /\ rows # <<>> /\ filtered # <<>>)
    /\ csv # NoTable => writes = 1

\* a request failed on a page that holds surviving records
C5_Witness ==
    /\ FetchFailed
    /\ gets = 1
    /\ \E k \in 1..Len(page) : Survives(page[k])

-----------------------------------------------------------------------------
(* C10 *)

\* C10: once the zero-rows check is passed the walk admits at least one
\* record, so the frame is never built from an empty list (no KeyError), a
\* successful invocation returns and writes a table with at least one row,
\* and every record the walk does not stop at is appended: the test
\* `date_key in seen_dates` never fails.
C10_WalkAdmitsSome ==
    /\ [](/\ pc = "build" => filtered # <<>>
          /\ outcome # "KeyError"
          /\ outcome = "ok" => (Len(result) >= 1 /\ csv = result)
          /\ pc = "walk" => Len(filtered) = j)
    /\ [][(pc = "walk" /\ j = 0) => (j' = 1 /\ Len(filtered') = 1)]_vars
    /\ [][(pc = "walk" /\ j' = j + 1) => filtered' = Append(filtered, rows[j + 1])]_vars

\* the walk admitted a single record and the invocation succeeded
C10_Witness ==
    /\ outcome = "ok"
    /\ Len(rows) = 1
    /\ Len(result) = 1

-----------------------------------------------------------------------------
(* C6 *)

DateLabels(t) == {t[k].Date : k \in 1..Len(t)}

RowsLabelled(t, label) == Cardinality({k \in 1..Len(t) : t[k].Date = label})

RowsOfDay(rs, day) == Cardinality({k \in 1..Len(rs) : DayOf(rs[k]._dt) = day})

\* the table keeps the order of the sorted records, which is strictly
\* ascending, and holds the records of 7 calendar days, at most 6 of each
TenDayTable ==
    /\ result = Frame(filtered)
    /\ StrictlyAscending(filtered)
    /\ filtered = SubSeq(rows, 1, Len(filtered))
    /\ Cardinality(DaysOf(filtered)) = 7
    /\ \A day \in DaysOf(filtered) : RowsOfDay(filtered, day) <= 6

\* no two days of the table have the same weekday, day of month and month
LabelsTellDaysApart ==
    \A a, b \in 1..Len(filtered) :
        result[a].Date = result[b].Date => DayOf(filtered[a]._dt) = DayOf(filtered[b]._dt)

\* C6 as stated: from complete records of 10 distinct days at all six times,
\* in any document order, the table has exactly 7 distinct date labels, at
\* most 6 rows under each, in strictly ascending chronological order.
C6_SevenDateLabels ==
    outcome = "ok" =>
        /\ TenDayTable
        /\ Cardinality(DateLabels(result)) = 7
        /\ \A label \in DateLabels(result) : RowsLabelled(result, label) <= 6

\* C6 amended: the table has exactly 7 distinct calendar days, at most 6
\* rows of each, in strictly ascending chronological order; its date labels
\* are 7, with at most 6 rows each, when no two of those days share weekday,
\* day of month and month, and fewer than 7 otherwise.
C6_SevenCalendarDays ==
    outcome = "ok" =>
        /\ TenDayTable
        /\ IF LabelsTellDaysApart
           THEN /\ Cardinality(DateLabels(result)) = 7
                /\ \A label \in DateLabels(result) : RowsLabelled(result, label) <= 6
           ELSE Cardinality(DateLabels(result)) < 7

\* a ten-day page given latest record first produced its table
C6_Witness ==
    /\ outcome = "ok"
    /\ Len(page) = 60
    /\ StrictlyBefore(page[60].dt, page[1].dt)
    /\ Len(result) = 42
    /\ Cardinality(DateLabels(result)) = 7

-----------------------------------------------------------------------------
(* C7 *)

\* bucket k of 16, centred on k * 22.5 degrees, in quarter degrees
InBucket(q, k) ==
    IF k = 0 THEN q < 45 \/ q >= 1395
    ELSE 90 * k - 45 <= q /\ q < 90 * k + 45

\* C7: the label of a bearing is entry floor(((deg mod 360) + 11.25) / 22.5)
\* mod 16 of the table that starts at Nord and goes clockwise, that is the
\* entry of the 22.5 degree bucket centred on a compass point that holds
\* deg mod 360; 0 gives Nord, 180 Sud, 349 Nord and 348 Nord Nord Ouest.
C7_CompassBuckets ==
    fn = "_deg_to_fr_compass" =>
        /\ \A k \in 0..15 :
              InBucket(4 * (arg % 360), k) => ret.val = _FR_COMPASS_16[k + 1]
        /\ arg = 0 => ret.val = "Nord"
        /\ arg = 180 => ret.val = "Sud"
        /\ arg = 349 => ret.val = "Nord"
        /\ arg = 348 => ret.val = "Nord Nord Ouest"
        /\ _FR_COMPASS_16[1] = "Nord" /\ _FR_COMPASS_16[5] = "Est"
        /\ _FR_COMPASS_16[9] = "Sud" /\ _FR_COMPASS_16[13] = "Ouest"

\* the bearing just below the boundary before Nord was mapped
C7_Witness ==
    /\ fn = "_deg_to_fr_compass"
    /\ arg = 348
    /\ ret.val = "Nord Nord Ouest"

-----------------------------------------------------------------------------
(* C8 *)

\* C8: turning a bearing by whole circles, into the negative too, leaves
\* its label unchanged, and the label is always one of the 16 of the table.
C8_Periodic ==
    [][/\ fn' = "_deg_to_fr_compass" => ret'.val \in Range(_FR_COMPASS_16)
       /\ (fn = "_deg_to_fr_compass" /\ arg' # arg) =>
             /\ (arg' - arg) % 360 = 0
             /\ ret'.val = ret.val]_vars

\* a bearing turned to below -360 degrees kept the label Ouest
C8_Witness ==
    /\ fn = "_deg_to_fr_compass"
    /\ arg = 0 - 450
    /\ ret.val = "Ouest"

-----------------------------------------------------------------------------
(* C9 *)

\* C9: _safe_float and _safe_int raise for no string and not for None; they
\* return None for the empty string, for "-" and for a string that does not
\* parse, each after trimming, and the parsed number otherwise, _safe_int
\* truncating a fraction: _safe_int("12.0") is 12, _safe_int("-") and
\* _safe_int("") are None, _safe_float("abc") is None.
C9_NeverRaises ==
    fn \in {"_safe_float", "_safe_int"} =>
        /\ ret.tag = "return"
        /\ (arg = NoneStr \/ Strip(arg) \in {<<>>, <<"-">>}) => ret.val = NoneVal
        /\ (arg # NoneStr /\ PyFloat(Strip(arg)) = ValueError) => ret.val = NoneVal
        /\ (fn = "_safe_float" /\ ret.val # NoneVal) => ret.val = PyFloat(Strip(arg))
        /\ (fn = "_safe_int" /\ arg = <<"1", "2", ".", "0">>) => ret.val = IntVal(12)
        /\ (fn = "_safe_int" /\ arg \in {<<"-">>, <<>>}) => ret.val = NoneVal
        /\ (fn = "_safe_float" /\ arg = <<"a", "b", "c">>) => ret.val = NoneVal

====
